---- MODULE Spec2Model ----
(***************************************************************************)
(* Model of mellium.im/xmpp/internal/integration: the Cmd harness that     *)
(* drives an external server process from a test (integration.go), with    *)
(* the socket-reserving options of the prosody package (prosody.go).       *)
(*                                                                         *)
(* One behaviour of Spec is one call of integration.Test followed by the    *)
(* subtests and the cleanups registered on the enclosing test.  SpecLog    *)
(* takes the child tests step by step next to the writers of the loggers   *)
(* (testWriter), for a Cmd made by Test or by a caller of prosody.New.     *)
(***************************************************************************)
EXTENDS Naturals, Integers, Sequences, FiniteSets, TLC

VARIABLES
    opts,       \* the Option list handed to Test/New (fixed per behaviour)
    viaTest,    \* the Cmd is made by Test; if not, by a caller of prosody.New
    pc,         \* position inside Test / New / Close
    idx,        \* index of the next Option of the range loop in New
    cmd,        \* the fields of *Cmd
    dir,        \* the temporary directory: "none" | "exists" | "removed"
    proc,       \* the OS process: "unstarted" | "running" | "exit0" | "exit1" | "killed"
    ctxDone,    \* the caller-supplied context is done
    killed,     \* cmd.kill / Test's cancel has been called
    live,       \* roles whose reserved address the process has bound
    confirmed,  \* roles for which waitSocket returned nil
    tries,      \* connection attempts of the waitSocket call in progress
    newErr,     \* the error New returned (Nil when it returned a Cmd)
    closeReg,   \* t.Cleanup(cmd.Close) has been registered
    cl,         \* locals and result of Close: stdin error, e, wait error, return value
    fatal,      \* t.Fatal was called
    subI,       \* the counter i of the returned SubtestRunner
    events,     \* history: what the harness did, in order
    inSub,      \* the body of a child test is running
    subFailed,  \* a child test has failed
    upd,        \* the rebinding of the loggers at the start of a child test
    wr,         \* the call of testWriter.Write made next to the test goroutine
    mu,         \* who holds the mutex of each testWriter
    acc         \* history: the reads and writes of a testWriter's field t

syncVars == <<inSub, subFailed, upd, wr, mu>>
logVars == <<syncVars, acc>>

vars == <<opts, viaTest, pc, idx, cmd, dir, proc, ctxDone, killed, live, confirmed,
          tries, newErr, closeReg, cl, fatal, subI, events, logVars>>

-----------------------------------------------------------------------------
(* Bounds of the model *)

MaxOpts == 2
MaxSubtests == 2
MaxCalls == 3
MaxLen == 1         \* longest p handed to testWriter.Write

Nil == "nil"

Roles == {"c2s", "s2s", "comp"}
Networks == {"tcp", "unix"}

(* The Options a caller may pass.  listen: an Option that reserves a socket
   for a role (prosody.ListenC2S, ListenS2S, Component), with the network it
   asks for; the others are the Options of integration.go. *)
OptionKinds ==
    [k : {"listen"}, role : Roles, net : Networks]
      \cup [k : {"TempFile", "Cert", "ClientCert", "Defer", "Shutdown", "Log", "LogXML"},
            role : {"-"}, net : {"-"}]

(* The Option lists that differ in what the loggers see: with or without
   Log, with or without LogXML, with or without a client socket for the
   sessions whose traffic LogXML logs. *)
BridgeOptLists ==
    {(IF log THEN <<[k |-> "Log", role |-> "-", net |-> "-"]>> ELSE <<>>)
       \o (IF xml THEN <<[k |-> "LogXML", role |-> "-", net |-> "-"]>> ELSE <<>>)
       \o (IF c2s THEN <<[k |-> "listen", role |-> "c2s", net |-> "tcp"]>> ELSE <<>>) :
     log \in BOOLEAN, xml \in BOOLEAN, c2s \in BOOLEAN}

(* The Option lists that differ in what Close has to do: with or without a
   reserved socket to wait for, a post-start function and a shutdown
   function. *)
TeardownOptLists ==
    {(IF c2s THEN <<[k |-> "listen", role |-> "c2s", net |-> "tcp"]>> ELSE <<>>)
       \o (IF def THEN <<[k |-> "Defer", role |-> "-", net |-> "-"]>> ELSE <<>>)
       \o (IF sd THEN <<[k |-> "Shutdown", role |-> "-", net |-> "-"]>> ELSE <<>>) :
     c2s \in BOOLEAN, def \in BOOLEAN, sd \in BOOLEAN}

RECURSIVE SeqsUpTo(_, _)
SeqsUpTo(S, n) ==
    IF n = 0 THEN {<<>>}
    ELSE LET shorter == SeqsUpTo(S, n - 1)
         IN shorter \cup {Append(s, x) : s \in {t \in shorter : Len(t) = n - 1}, x \in S}

Ev(k, i, x) == [k |-> k, i |-> i, x |-> x]

-----------------------------------------------------------------------------
(* type testWriter struct: a nil *testWriter is NoWriter; t is <<>> (nil),
   <<"T">> (the enclosing test) or <<"T", i>> (subtest i). *)

NoWriter == [present |-> FALSE, t |-> <<>>]
NewWriter == [present |-> TRUE, t |-> <<>>]

(* type Cmd struct.  A listener is 0 (nil) or the number of the Option whose
   net.Listen call opened it; a chain (cfgF, deferF, shutdown) is <<>> (nil)
   or the registered functions, innermost closure first.  closed is the
   state of the listener objects the slots point to: the listeners on which
   Close has been called. *)

ZeroCmd ==
    [cfgF |-> <<>>, deferF |-> <<>>, shutdown |-> <<>>,
     stdoutWriter |-> NoWriter, in |-> NoWriter, out |-> NoWriter,
     c2sListener |-> 0, s2sListener |-> 0, compListener |-> 0,
     c2sNetwork |-> "", s2sNetwork |-> "", compNetwork |-> "",
     clientCrt |-> 0, clientCrtKey |-> 0, closed |-> {}]

-----------------------------------------------------------------------------
(* Socket reservation.  id is the listener net.Listen would return, ok
   whether net.Listen succeeds.  The result carries the updated Cmd, the
   returned listener and error, and whether a listener was opened. *)

(* Mutant: the network kind is recorded only with a listener. *)
C2SListenKeepNetwork(c, network, id, ok) ==
    IF c.c2sListener # 0
    THEN [cmd |-> c, ret |-> c.c2sListener, err |-> Nil, opened |-> FALSE]
    ELSE [cmd |-> IF ok THEN [c EXCEPT !.c2sListener = id, !.c2sNetwork = network]
                  ELSE c,
          ret |-> IF ok THEN id ELSE 0,
          err |-> IF ok THEN Nil ELSE "listenErr",
          opened |-> ok]

(* Mutant: the existing listener is not checked, every call listens anew. *)
C2SListenReopen(c, network, id, ok) ==
    [cmd |-> [c EXCEPT !.c2sListener = IF ok THEN id ELSE 0,
                       !.c2sNetwork = network],
     ret |-> IF ok THEN id ELSE 0,
     err |-> IF ok THEN Nil ELSE "listenErr",
     opened |-> ok]

C2SListen(c, network, id, ok) ==
    IF c.c2sListener # 0
    THEN [cmd |-> c, ret |-> c.c2sListener, err |-> Nil, opened |-> FALSE]
    ELSE [cmd |-> [c EXCEPT !.c2sListener = IF ok THEN id ELSE 0,
                            !.c2sNetwork = network],
          ret |-> IF ok THEN id ELSE 0,
          err |-> IF ok THEN Nil ELSE "listenErr",
          opened |-> ok]

S2SListen(c, network, id, ok) ==
    IF c.s2sListener # 0
    THEN [cmd |-> c, ret |-> c.s2sListener, err |-> Nil, opened |-> FALSE]
    ELSE [cmd |-> [c EXCEPT !.s2sListener = IF ok THEN id ELSE 0,
                            !.s2sNetwork = network],
          ret |-> IF ok THEN id ELSE 0,
          err |-> IF ok THEN Nil ELSE "listenErr",
          opened |-> ok]

ComponentListen(c, network, id, ok) ==
    IF c.compListener # 0
    THEN [cmd |-> c, ret |-> c.compListener, err |-> Nil, opened |-> FALSE]
    ELSE [cmd |-> [c EXCEPT !.compListener = IF ok THEN id ELSE 0,
                            !.compNetwork = network],
          ret |-> IF ok THEN id ELSE 0,
          err |-> IF ok THEN Nil ELSE "listenErr",
          opened |-> ok]

Listener(c, role) ==
    CASE role = "c2s" -> c.c2sListener
      [] role = "s2s" -> c.s2sListener
      [] role = "comp" -> c.compListener

Network(c, role) ==
    CASE role = "c2s" -> c.c2sNetwork
      [] role = "s2s" -> c.s2sNetwork
      [] role = "comp" -> c.compNetwork

(* net.Listener.Close of a probe listener: a listener that was closed before
   reports "use of closed network connection".  closed holds the listeners
   that have been closed. *)
CloseListener(closed, l) ==
    [closed |-> closed \cup {l}, err |-> IF l \in closed THEN "closedErr" ELSE Nil]

(* prosody.ListenC2S / ListenS2S / Component: reserve the role's socket, take
   its port and close the listener the reservation returned; the Option fails
   when the reservation or the Close fails.  The event records the call: the
   role and network asked for, the listener returned, whether one was opened,
   the network kind recorded on the Cmd after the call, and the Option's
   result. *)
ListenOpt(c, i, o, ok) ==
    LET r == CASE o.role = "c2s" -> C2SListen(c, o.net, i, ok)
               [] o.role = "s2s" -> S2SListen(c, o.net, i, ok)
               [] o.role = "comp" -> ComponentListen(c, o.net, i, ok)
        q == IF r.err # Nil THEN [closed |-> c.closed, err |-> r.err]
              ELSE CloseListener(c.closed, r.ret)
    IN [cmd |-> [r.cmd EXCEPT !.closed = q.closed], err |-> q.err,
        evs |-> <<Ev("reserve", i,
                     [role |-> o.role, net |-> o.net, ret |-> r.ret,
                      opened |-> r.opened, netAfter |-> Network(r.cmd, o.role),
                      before |-> Listener(c, o.role), err |-> q.err])>>]

-----------------------------------------------------------------------------
(* Options of integration.go.  Each yields the updated Cmd, the error the
   Option returns and the events of what it did. *)

(* Mutant: a registration replaces the chain instead of wrapping it. *)
TempFileReplace(c, w, ok) ==
    IF ~ok
    THEN [cmd |-> c, err |-> "mkdirErr", evs |-> <<>>]
    ELSE [cmd |-> [c EXCEPT !.cfgF = <<w>>],
          err |-> Nil,
          evs |-> <<Ev("reg", w[1], [w |-> w, err |-> Nil])>>]

(* Mutant: the file is written when the Option runs, not deferred. *)
TempFileEager(c, w, ok) ==
    IF ~ok
    THEN [cmd |-> c, err |-> "mkdirErr", evs |-> <<>>]
    ELSE [cmd |-> c,
          err |-> Nil,
          evs |-> <<Ev("reg", w[1], [w |-> w, err |-> Nil]),
                    Ev("create", w[1], [w |-> w, err |-> Nil]),
                    Ev("write", w[1], [w |-> w, err |-> Nil])>>]

(* TempFile(name, f)(cmd): w names the registration (Option number and file);
   ok is the result of os.MkdirAll for a name with a directory part. *)
TempFile(c, w, ok) ==
    IF ~ok
    THEN [cmd |-> c, err |-> "mkdirErr", evs |-> <<>>]
    ELSE [cmd |-> [c EXCEPT !.cfgF = IF c.cfgF # <<>> THEN Append(c.cfgF, w) ELSE <<w>>],
          err |-> Nil,
          evs |-> <<Ev("reg", w[1], [w |-> w, err |-> Nil])>>]

(* cert(name, crt)(cmd): ok is the result of rsa.GenerateKey.  The names
   carry no directory part here, so MkdirAll is not in play. *)
cert(c, i, client, ok) ==
    IF ~ok
    THEN [cmd |-> c, err |-> "keygenErr", evs |-> <<>>]
    ELSE LET k == TempFile(c, <<i, "key">>, TRUE)
         IN IF k.err # Nil THEN k
            ELSE LET r == TempFile(k.cmd, <<i, IF client THEN "clientcrt" ELSE "crt">>, TRUE)
                 IN [cmd |-> r.cmd, err |-> r.err, evs |-> k.evs \o r.evs]

Shutdown(c, f) ==
    [cmd |-> [c EXCEPT !.shutdown = IF c.shutdown # <<>> THEN Append(c.shutdown, f) ELSE <<f>>],
     err |-> Nil, evs |-> <<>>]

(* Mutant: a later registration is called before the earlier ones. *)
DeferPrepend(c, f) ==
    [cmd |-> [c EXCEPT !.deferF = <<f>> \o c.deferF], err |-> Nil, evs |-> <<>>]

Defer(c, f) ==
    [cmd |-> [c EXCEPT !.deferF = IF c.deferF # <<>> THEN Append(c.deferF, f) ELSE <<f>>],
     err |-> Nil, evs |-> <<>>]

Log(c) ==
    [cmd |-> [c EXCEPT !.stdoutWriter = NewWriter], err |-> Nil, evs |-> <<>>]

LogXML(c) ==
    [cmd |-> [c EXCEPT !.in = NewWriter, !.out = NewWriter], err |-> Nil, evs |-> <<>>]

(* opt(cmd) for the i-th Option o of the list. *)
ApplyOpt(c, i, o, ok) ==
    CASE o.k = "listen" -> ListenOpt(c, i, o, ok)
      [] o.k = "TempFile" -> TempFile(c, <<i, "file">>, ok)
      [] o.k = "Cert" -> cert(c, i, FALSE, ok)
      [] o.k = "ClientCert" -> cert(c, i, TRUE, ok)
      [] o.k = "Shutdown" -> Shutdown(c, i)
      [] o.k = "Defer" -> Defer(c, i)
      [] o.k = "Log" -> Log(c)
      [] o.k = "LogXML" -> LogXML(c)

-----------------------------------------------------------------------------
(* Deferred file materialization: the closure chain cmd.cfgF. *)

(* What os.Create / f / cfgFile.Close can do for one registered file. *)
FileOutcomes == {"ok", "createErr", "fErr", "fErrLate", "closeErr"}

(* newF of TempFile for registration w.  The client certificate writer of
   cert retains the certificate and key once x509.CreateCertificate has
   succeeded ("fErrLate": f fails after that, in pem.Encode).  The events:
   the file is created, f is called (with the error newF then returns). *)
(* Mutant: a client certificate is retained only when none is retained yet. *)
newFKeepFirst(c, w, out) ==
    IF out = "createErr"
    THEN [cmd |-> c, err |-> out,
          evs |-> <<Ev("create", w[1], [w |-> w, err |-> out])>>]
    ELSE LET err == IF out = "ok" THEN Nil ELSE out
         IN [cmd |-> IF w[2] = "clientcrt" /\ out # "fErr" /\ c.clientCrt = 0
                     THEN [c EXCEPT !.clientCrt = w[1], !.clientCrtKey = w[1]]
                     ELSE c,
             err |-> err,
             evs |-> <<Ev("create", w[1], [w |-> w, err |-> Nil]),
                       Ev("write", w[1], [w |-> w, err |-> err])>>]

(* Mutant: the certificate of any credential is retained. *)
newFAnyCert(c, w, out) ==
    IF out = "createErr"
    THEN [cmd |-> c, err |-> out,
          evs |-> <<Ev("create", w[1], [w |-> w, err |-> out])>>]
    ELSE LET err == IF out = "ok" THEN Nil ELSE out
         IN [cmd |-> IF w[2] \in {"clientcrt", "crt"} /\ out # "fErr"
                     THEN [c EXCEPT !.clientCrt = w[1], !.clientCrtKey = w[1]]
                     ELSE c,
             err |-> err,
             evs |-> <<Ev("create", w[1], [w |-> w, err |-> Nil]),
                       Ev("write", w[1], [w |-> w, err |-> err])>>]

newF(c, w, out) ==
    IF out = "createErr"
    THEN [cmd |-> c, err |-> out,
          evs |-> <<Ev("create", w[1], [w |-> w, err |-> out])>>]
    ELSE LET err == IF out = "ok" THEN Nil ELSE out
         IN [cmd |-> IF w[2] = "clientcrt" /\ out # "fErr"
                     THEN [c EXCEPT !.clientCrt = w[1], !.clientCrtKey = w[1]]
                     ELSE c,
             err |-> err,
             evs |-> <<Ev("create", w[1], [w |-> w, err |-> Nil]),
                       Ev("write", w[1], [w |-> w, err |-> err])>>]

(* cmd.cfgF(): the wrapper built by TempFile calls prev(), returns its error
   if any, and then calls newF.  File number k of the chain meets outcome
   out, every other file is written without error. *)
RECURSIVE cfgFRun(_, _, _, _)
cfgFRun(chain, c, k, out) ==
    IF chain = <<>>
    THEN [cmd |-> c, err |-> Nil, evs |-> <<>>]
    ELSE LET n == Len(chain)
             prev == cfgFRun(SubSeq(chain, 1, n - 1), c, k, out)
         IN IF prev.err # Nil
            THEN prev
            ELSE LET r == newF(prev.cmd, chain[n], IF k = n THEN out ELSE "ok")
                 IN [cmd |-> r.cmd, err |-> r.err, evs |-> prev.evs \o r.evs]

(* cmd.deferF(cmd) / cmd.shutdown(cmd): the wrapper calls prev, returns its
   error if any, then calls f.  Function number k of the chain fails. *)
RECURSIVE RunChain(_, _, _)
RunChain(chain, k, kind) ==
    IF chain = <<>>
    THEN [err |-> Nil, evs |-> <<>>]
    ELSE LET n == Len(chain)
             prev == RunChain(SubSeq(chain, 1, n - 1), k, kind)
         IN IF prev.err # Nil
            THEN prev
            ELSE [err |-> IF k = n THEN kind \o "Err" ELSE Nil,
                  evs |-> Append(prev.evs, Ev(kind, chain[n], k # n))]

-----------------------------------------------------------------------------
(* func New *)

NoErr == [ctx |-> "", text |-> Nil, wraps |-> Nil]

(* fmt.Errorf("error applying option: %v", err): the text of err is
   formatted into the message; nothing is wrapped. *)
OptErr(err) == [ctx |-> "error applying option", text |-> err, wraps |-> Nil]

(* fmt.Errorf("error running config func: %w", err) *)
CfgErr(err) == [ctx |-> "error running config func", text |-> err, wraps |-> err]

(* return nil, err *)
BareErr(err) == [ctx |-> "", text |-> err, wraps |-> err]

(* Mutant: the directory is not created by New. *)
NewDirLazy(out) == "none"

(* cmd.Cmd.StdinPipe() and ioutil.TempDir: the directory exists once both
   have succeeded. *)
NewDir(out) == IF out = "ok" THEN "exists" ELSE "none"

(* Mutant: the loop goes on after an Option failed. *)
NewOptStepContinue(c, i, o, ok) ==
    LET r == ApplyOpt(c, i, o, ok)
    IN [cmd |-> r.cmd,
        evs |-> <<Ev("opt", i, r.err)>> \o r.evs,
        err |-> NoErr,
        returns |-> FALSE]

(* One iteration of the range loop over opts: the Option is called and an
   error makes New return. *)
NewOptStep(c, i, o, ok) ==
    LET r == ApplyOpt(c, i, o, ok)
    IN [cmd |-> r.cmd,
        evs |-> <<Ev("opt", i, r.err)>> \o r.evs,
        err |-> IF r.err # Nil THEN OptErr(r.err) ELSE NoErr,
        returns |-> r.err # Nil]

(* if cmd.cfgF != nil { err = cmd.cfgF() ... } *)
NewCfgStep(c, k, out) ==
    IF c.cfgF = <<>>
    THEN [cmd |-> c, evs |-> <<>>, err |-> NoErr]
    ELSE LET r == cfgFRun(c.cfgF, c, k, out)
         IN [cmd |-> r.cmd,
             evs |-> <<Ev("cfgF", 0, Len(c.cfgF))>> \o r.evs,
             err |-> IF r.err # Nil THEN CfgErr(r.err) ELSE NoErr]

-----------------------------------------------------------------------------
(* func (cmd *Cmd) Close: what follows each step. cl holds the locals. *)

NewClose == [stdinErr |-> "unset", e |-> "unset", waitErr |-> "unset",
             rmErr |-> "unset", ret |-> "unset", returned |-> FALSE]

(* err := cmd.stdinPipe.Close(); if err != nil { return nil } *)
CloseAfterStdin(c, err) ==
    IF err # Nil
    THEN [cl |-> [c EXCEPT !.stdinErr = err, !.ret = Nil], pc |-> "CloseRet"]
    ELSE [cl |-> [c EXCEPT !.stdinErr = err], pc |-> "CloseShutdown"]

(* Mutant: the directory is removed without waiting for the process. *)
CloseAfterShutdownSkipWait(c, e) ==
    [cl |-> [c EXCEPT !.e = e], pc |-> "CloseRemove"]

(* Mutant: a failed shutdown chain makes Close return at once. *)
CloseAfterShutdownReturn(c, e) ==
    IF e # Nil
    THEN [cl |-> [c EXCEPT !.e = e, !.ret = e], pc |-> "CloseRet"]
    ELSE [cl |-> [c EXCEPT !.e = e], pc |-> "CloseWait"]

(* var e error; if cmd.shutdown != nil { e = cmd.shutdown(cmd) } *)
CloseAfterShutdown(c, e) ==
    [cl |-> [c EXCEPT !.e = e], pc |-> "CloseWait"]

(* Mutant: the result of Wait is not checked. *)
CloseAfterWaitIgnore(c, err) ==
    [cl |-> [c EXCEPT !.waitErr = err], pc |-> "CloseRemove"]

(* err = cmd.Cmd.Wait(); if err != nil { return err } *)
CloseAfterWait(c, err) ==
    IF err # Nil
    THEN [cl |-> [c EXCEPT !.waitErr = err, !.ret = err], pc |-> "CloseRet"]
    ELSE [cl |-> [c EXCEPT !.waitErr = err], pc |-> "CloseRemove"]

(* err = os.RemoveAll(cmd.cfgDir); if err != nil { return err }; return e *)
CloseAfterRemove(c, err) ==
    [cl |-> [c EXCEPT !.rmErr = err, !.ret = IF err # Nil THEN err ELSE c.e],
     pc |-> "CloseRet"]

(* Mutant: Wait returns only for a process that exited on its own. *)
WaitReturnsOnExit(p) == p \notin {"running", "killed"}

(* exec.Cmd.Wait blocks while the process runs; it returns at once for a
   command that was not started, and once the process has exited or has been
   killed. *)
WaitReturns(p) == p # "running"

(* Mutant: Wait on a command that was not started reports no error. *)
WaitResultLenient(p) ==
    CASE p = "unstarted" -> Nil
      [] p = "exit0" -> Nil
      [] p = "exit1" -> "exitErr"
      [] p = "killed" -> "killedErr"

(* exec.Cmd.Wait: an error if the command was not started, exited with a
   non-zero status or was killed by a signal; nil after exit status 0. *)
WaitResult(p) ==
    CASE p = "unstarted" -> "notStartedErr"
      [] p = "exit0" -> Nil
      [] p = "exit1" -> "exitErr"
      [] p = "killed" -> "killedErr"

(* Mutant: cancelling the context does not reach the process. *)
KillNoop(p) == p

(* exec.CommandContext: the process is killed when the context becomes done. *)
Kill(p) == IF p = "running" THEN "killed" ELSE p

-----------------------------------------------------------------------------
(* func Test *)

(* w.Update(t); a nil *testWriter is left alone. *)
Update(w, t) == IF w.present THEN [w EXCEPT !.t = t] ELSE w

UpdateAll(c, t) ==
    [c EXCEPT !.stdoutWriter = Update(c.stdoutWriter, t),
              !.in = Update(c.in, t),
              !.out = Update(c.out, t)]

(* Mutant: the failure is reported without stopping the test. *)
AfterFatalContinue(reg) == "Running"

(* Mutant: a fatal failure skips the registered Close. *)
AfterFatalNoClose(reg) == "Cancel"

(* Who called New goes on once it has returned a Cmd: Test with its own
   setup; a caller of prosody.New, who has an unstarted daemon, with Start. *)
AfterNew(test) == IF test THEN "Setup" ELSE "Start"

(* Once the process runs Test waits for the sockets; a caller of cmd.Start
   uses the command and closes it. *)
AfterStart(test) == IF test THEN "WaitC2S" ELSE "Running"

(* t.Fatal(err): the test stops and its cleanups run, last registered first. *)
AfterFatal(reg) == IF reg THEN "CloseStdin" ELSE "Cancel"

(* The cleanup registered by Test: err := cmd.Close(); a non-nil error is
   logged with t.Logf. *)
CleanupLog(ret) == IF ret # Nil THEN <<Ev("logf", 0, ret)>> ELSE <<>>

(* waitSocket(network, addr): dials the address until a connection succeeds,
   at most RetryBudget times; one attempt succeeds when the process has bound
   the address.  The result of the attempt numbered n (from 1): "ok", "retry"
   or "exhausted". *)
RetryBudget == 2

waitSocket(bound, n) ==
    IF bound THEN "ok"
    ELSE IF n >= RetryBudget THEN "exhausted" ELSE "retry"

(* The name under which prosody.Test calls Test. *)
cmdName == "prosody"

(* fmt.Sprintf("%s/%d", filepath.Base(name), i) *)
SubtestName(i) == cmdName \o "/" \o ToString(i)

(* The *testing.T that t.Run hands to child test i. *)
SubT(i) == <<"T", i>>

(* The child test that t.Run creates: its name, and whether a child test had
   failed before. *)
Child(i, failedBefore) == [name |-> SubtestName(i), afterFailure |-> failedBefore]

(* Mutant: the counter of the runner stays where the first call put it. *)
NextIStuck(i) == IF i < 0 THEN 0 ELSE i

(* i++ *)
NextI(i) == i + 1

(* Mutant: the child test leaves the logger of sent XML alone. *)
BridgeOrderShort == <<"stdoutWriter", "in">>

(* The loggers in the order Test and the child test rebind them. *)
BridgeOrder == <<"stdoutWriter", "in", "out">>

Bridges == {"stdoutWriter", "in", "out"}

(* What the child test sees when its body is called. *)
Bound(c) == [stdoutWriter |-> c.stdoutWriter, in |-> c.in, out |-> c.out]

(* Mutant: Lock returns at once whoever holds the mutex. *)
CanLockAlways(holder) == TRUE

(* w.Lock() returns when nobody holds the mutex. *)
CanLock(holder) == holder = "free"

(* Mutant: a writer that has no test to log to reports an error. *)
WriteStrict(w, n) ==
    [n |-> IF w.present /\ w.t # <<>> THEN n ELSE 0,
     err |-> IF w.present /\ w.t # <<>> THEN Nil ELSE "writeErr",
     locks |-> w.present,
     logged |-> w.present /\ w.t # <<>>]

(* func (w *testWriter) Write(p) with len(p) = n: the result n, err; whether
   the mutex is taken; whether w.t.Logf is called. *)
Write(w, n) ==
    [n |-> n, err |-> Nil, locks |-> w.present,
     logged |-> w.present /\ w.t # <<>>]

(* One read or write of the field t of a testWriter: by which function, and
   with the mutex held or not. *)
Access(by, b, locked) == [by |-> by, w |-> b, locked |-> locked]

(* The writes of t made by the Update calls of Test, each one between Lock
   and Unlock. *)
UpdateAccess(c) ==
    {Access("Update", b, TRUE) : b \in {x \in Bridges : c[x].present}}

(* Cmd.Start reads cmd.stdoutWriter.t without taking the mutex. *)
StartAccess(c) ==
    IF c.stdoutWriter.present
    THEN {Access("Start", "stdoutWriter", FALSE)}
    ELSE {}

IdleWr == [pc |-> "idle", w |-> "-", n |-> 0, ret |-> 0, err |-> Nil,
           logged |-> FALSE, active |-> FALSE]

IdleUpd == [k |-> 0, cs |-> FALSE]

-----------------------------------------------------------------------------
(* The state machine *)

(* The test whose *testing.T is t has not returned yet. *)
Active(t) ==
    \/ t = <<"T">> /\ pc # "Done"
    \/ subI >= 0 /\ t = SubT(subI) /\ (inSub \/ upd # IdleUpd)

InitState ==
    /\ pc = "New"
    /\ idx = 1
    /\ cmd = ZeroCmd
    /\ dir = "none"
    /\ proc = "unstarted"
    /\ ctxDone = FALSE
    /\ killed = FALSE
    /\ live = {}
    /\ confirmed = {}
    /\ tries = 0
    /\ newErr = NoErr
    /\ closeReg = FALSE
    /\ cl = NewClose
    /\ fatal = FALSE
    /\ subI = -1
    /\ events = <<>>
    /\ inSub = FALSE
    /\ subFailed = FALSE
    /\ upd = IdleUpd
    /\ wr = IdleWr
    /\ mu = [b \in Bridges |-> "free"]
    /\ acc = {}

Init ==
    /\ opts \in SeqsUpTo(OptionKinds, MaxOpts)
    /\ viaTest = TRUE
    /\ InitState

(* New, up to the creation of the temporary directory. *)
NewTempDir ==
    /\ pc = "New"
    /\ \E out \in {"ok", "pipeErr", "dirErr"} :
        /\ dir' = NewDir(out)
        /\ IF out = "ok"
           THEN /\ pc' = "Opts"
                /\ UNCHANGED <<newErr, fatal>>
           ELSE /\ newErr' = BareErr(out)
                /\ fatal' = TRUE
                /\ pc' = AfterFatal(closeReg)
    /\ UNCHANGED <<logVars, opts, viaTest, idx, cmd, proc, ctxDone, killed, live, confirmed,
                   tries, closeReg, cl, subI, events>>

(* New: one Option of the loop. *)
ApplyOption ==
    /\ pc = "Opts"
    /\ idx <= Len(opts)
    /\ \E ok \in BOOLEAN :
        LET r == NewOptStep(cmd, idx, opts[idx], ok)
        IN /\ cmd' = r.cmd
           /\ events' = events \o r.evs
           /\ newErr' = r.err
           /\ IF r.returns
              THEN /\ fatal' = TRUE
                   /\ pc' = AfterFatal(closeReg)
                   /\ idx' = idx
              ELSE /\ idx' = idx + 1
                   /\ UNCHANGED <<fatal, pc>>
    /\ UNCHANGED <<logVars, opts, viaTest, dir, proc, ctxDone, killed, live, confirmed, tries,
                   closeReg, cl, subI>>

(* New: after the loop, the deferred files are written and New returns. *)
Materialize ==
    /\ pc = "Opts"
    /\ idx > Len(opts)
    /\ \E k \in 0..Len(cmd.cfgF), out \in FileOutcomes \ {"ok"} :
        LET r == NewCfgStep(cmd, k, out)
        IN /\ cmd' = r.cmd
           /\ events' = events \o r.evs
           /\ newErr' = r.err
           /\ IF r.err # NoErr
              THEN /\ fatal' = TRUE
                   /\ pc' = AfterFatal(closeReg)
              ELSE /\ pc' = AfterNew(viaTest)
                   /\ UNCHANGED fatal
    /\ UNCHANGED <<logVars, opts, viaTest, idx, dir, proc, ctxDone, killed, live, confirmed,
                   tries, closeReg, cl, subI>>

(* Test: Close is registered as a cleanup and the loggers are bound to t. *)
TestSetup ==
    /\ pc = "Setup"
    /\ closeReg' = TRUE
    /\ cmd' = UpdateAll(cmd, <<"T">>)
    /\ acc' = acc \cup UpdateAccess(cmd)
    /\ pc' = "Start"
    /\ UNCHANGED <<syncVars, opts, viaTest, idx, dir, proc, ctxDone, killed, live, confirmed,
                   tries, newErr, cl, fatal, subI, events>>

(* Test: cmd.Start().  exec refuses to start under a context that is done. *)
Start ==
    /\ pc = "Start"
    /\ \E ok \in BOOLEAN :
        LET started == ok /\ ~ctxDone
        IN /\ events' = Append(events, Ev("start", 0, started))
           /\ IF started
              THEN /\ proc' = "running"
                   /\ pc' = AfterStart(viaTest)
                   /\ UNCHANGED fatal
              ELSE /\ fatal' = TRUE
                   /\ pc' = AfterFatal(closeReg)
                   /\ UNCHANGED proc
    /\ acc' = acc \cup StartAccess(cmd)
    /\ UNCHANGED <<syncVars, opts, viaTest, idx, cmd, dir, ctxDone, killed, live, confirmed,
                   tries, newErr, closeReg, cl, subI>>

(* Test: the wait for one reserved socket, one connection attempt per step;
   next is where Test goes on once the socket is live or was never reserved. *)
WaitFor(role, next) ==
    /\ IF Listener(cmd, role) = 0
       THEN /\ pc' = next
            /\ UNCHANGED <<confirmed, tries, fatal>>
       ELSE LET res == waitSocket(role \in live, tries + 1)
            IN CASE res = "ok" ->
                      /\ confirmed' = confirmed \cup {role}
                      /\ tries' = 0
                      /\ pc' = next
                      /\ UNCHANGED fatal
                 [] res = "retry" ->
                      /\ tries' = tries + 1
                      /\ UNCHANGED <<confirmed, pc, fatal>>
                 [] res = "exhausted" ->
                      /\ tries' = 0
                      /\ fatal' = TRUE
                      /\ pc' = AfterFatal(closeReg)
                      /\ UNCHANGED confirmed
    /\ UNCHANGED <<logVars, opts, viaTest, idx, cmd, dir, proc, ctxDone, killed, live, newErr,
                   closeReg, cl, subI, events>>

WaitC2S ==
    /\ pc = "WaitC2S"
    /\ WaitFor("c2s", "WaitS2S")

WaitS2S ==
    /\ pc = "WaitS2S"
    /\ WaitFor("s2s", "DeferF")

(* Test: the post-start chain. *)
RunDeferF ==
    /\ pc = "DeferF"
    /\ \E k \in 0..Len(cmd.deferF) :
        LET r == RunChain(cmd.deferF, k, "defer")
        IN /\ events' = events \o r.evs
           /\ IF r.err # Nil
              THEN /\ fatal' = TRUE
                   /\ pc' = AfterFatal(closeReg)
              ELSE /\ pc' = "Running"
                   /\ UNCHANGED fatal
    /\ UNCHANGED <<logVars, opts, viaTest, idx, cmd, dir, proc, ctxDone, killed, live, confirmed,
                   tries, newErr, closeReg, cl, subI>>

(* One call of the returned SubtestRunner: i++, t.Run of the child test,
   which rebinds the loggers and calls the body. *)
Subtest ==
    /\ pc = "Running"
    /\ subI + 1 < MaxSubtests
    /\ subI' = NextI(subI)
    /\ cmd' = UpdateAll(cmd, SubT(subI'))
    /\ acc' = acc \cup UpdateAccess(cmd)
    /\ events' = events \o <<Ev("subtest", subI', Child(subI', subFailed)),
                              Ev("body", subI', [t |-> SubT(subI'), bound |-> Bound(cmd')])>>
    /\ UNCHANGED <<syncVars, opts, viaTest, pc, idx, dir, proc, ctxDone, killed, live, confirmed,
                   tries, newErr, closeReg, cl, fatal>>

(* The enclosing test function returns: its cleanups run. *)
TestEnd ==
    /\ pc = "Running"
    /\ ~inSub
    /\ upd = IdleUpd
    /\ pc' = "CloseStdin"
    /\ UNCHANGED <<logVars, opts, viaTest, idx, cmd, dir, proc, ctxDone, killed, live, confirmed,
                   tries, newErr, closeReg, cl, fatal, subI, events>>

(* Close: cmd.stdinPipe.Close() *)
CloseStdin ==
    /\ pc = "CloseStdin"
    /\ \E err \in {Nil, "stdinErr"} :
        LET r == CloseAfterStdin(cl, err)
        IN /\ cl' = r.cl
           /\ pc' = r.pc
           /\ events' = Append(events, Ev("stdinClose", 0, err))
    /\ UNCHANGED <<logVars, opts, viaTest, idx, cmd, dir, proc, ctxDone, killed, live, confirmed,
                   tries, newErr, closeReg, fatal, subI>>

(* Close: the shutdown chain *)
CloseShutdown ==
    /\ pc = "CloseShutdown"
    /\ \E k \in 0..Len(cmd.shutdown) :
        LET s == RunChain(cmd.shutdown, k, "shutdown")
            r == CloseAfterShutdown(cl, s.err)
        IN /\ cl' = r.cl
           /\ pc' = r.pc
           /\ events' = events \o s.evs
    /\ UNCHANGED <<logVars, opts, viaTest, idx, cmd, dir, proc, ctxDone, killed, live, confirmed,
                   tries, newErr, closeReg, fatal, subI>>

(* Close: cmd.Cmd.Wait(), which blocks while the process runs and until the
   copying of its output to cmd.Stdout is over *)
CloseWait ==
    /\ pc = "CloseWait"
    /\ WaitReturns(proc)
    /\ ~(wr.pc \in {"waiting", "cs"} /\ wr.w = "stdoutWriter")
    /\ LET err == WaitResult(proc)
           r == CloseAfterWait(cl, err)
       IN /\ cl' = r.cl
          /\ pc' = r.pc
          /\ events' = Append(events, Ev("wait", 0, err))
    /\ UNCHANGED <<logVars, opts, viaTest, idx, cmd, dir, proc, ctxDone, killed, live, confirmed,
                   tries, newErr, closeReg, fatal, subI>>

(* Close: os.RemoveAll(cmd.cfgDir) *)
CloseRemove ==
    /\ pc = "CloseRemove"
    /\ \E err \in {Nil, "removeErr"} :
        LET r == CloseAfterRemove(cl, err)
        IN /\ cl' = r.cl
           /\ pc' = r.pc
           /\ dir' = IF err = Nil THEN "removed" ELSE dir
           /\ events' = Append(events, Ev("removeAll", 0, err))
    /\ UNCHANGED <<logVars, opts, viaTest, idx, cmd, proc, ctxDone, killed, live, confirmed,
                   tries, newErr, closeReg, fatal, subI>>

(* Close returns: the deferred cmd.kill() runs, the cleanup logs the error *)
CloseRet ==
    /\ pc = "CloseRet"
    /\ cl' = [cl EXCEPT !.returned = TRUE]
    /\ killed' = TRUE
    /\ proc' = Kill(proc)
    /\ live' = IF proc = "running" THEN {} ELSE live
    /\ events' = Append(events, Ev("kill", 0, cl.ret))
                   \o (IF closeReg THEN CleanupLog(cl.ret) ELSE <<>>)
    /\ pc' = "Cancel"
    /\ UNCHANGED <<logVars, opts, viaTest, idx, cmd, dir, ctxDone, confirmed, tries, newErr,
                   closeReg, fatal, subI>>

(* The first cleanup registered by Test, run last: cancel() *)
Cancel ==
    /\ pc = "Cancel"
    /\ killed' = TRUE
    /\ proc' = Kill(proc)
    /\ live' = IF proc = "running" THEN {} ELSE live
    /\ pc' = "Done"
    /\ UNCHANGED <<logVars, opts, viaTest, idx, cmd, dir, ctxDone, confirmed, tries, newErr,
                   closeReg, cl, fatal, subI, events>>

(* The environment: the process binds a reserved address *)
ProcBind ==
    /\ proc = "running"
    /\ \E role \in Roles :
        /\ Listener(cmd, role) # 0
        /\ role \notin live
        /\ live' = live \cup {role}
    /\ UNCHANGED <<logVars, opts, viaTest, pc, idx, cmd, dir, proc, ctxDone, killed, confirmed,
                   tries, newErr, closeReg, cl, fatal, subI, events>>

(* The environment: the process exits on its own *)
ProcExit ==
    /\ proc = "running"
    /\ \E p \in {"exit0", "exit1"} : proc' = p
    /\ live' = {}
    /\ UNCHANGED <<logVars, opts, viaTest, pc, idx, cmd, dir, ctxDone, killed, confirmed, tries,
                   newErr, closeReg, cl, fatal, subI, events>>

(* The environment: the caller-supplied context becomes done.  The harness
   reads the context only through exec: Start refuses a context that is done
   and a running process is killed; at other moments nothing observes it. *)
CtxCancel ==
    /\ ~ctxDone
    /\ pc \in {"Opts", "Setup", "Start"} \/ proc = "running"
    /\ ctxDone' = TRUE
    /\ proc' = Kill(proc)
    /\ live' = IF proc = "running" THEN {} ELSE live
    /\ UNCHANGED <<logVars, opts, viaTest, pc, idx, cmd, dir, killed, confirmed, tries, newErr,
                   closeReg, cl, fatal, subI, events>>

Next ==
    \/ NewTempDir
    \/ ApplyOption
    \/ Materialize
    \/ TestSetup
    \/ Start
    \/ WaitC2S
    \/ WaitS2S
    \/ RunDeferF
    \/ Subtest
    \/ TestEnd
    \/ CloseStdin
    \/ CloseShutdown
    \/ CloseWait
    \/ CloseRemove
    \/ CloseRet
    \/ Cancel
    \/ ProcBind
    \/ ProcExit
    \/ CtxCancel

Spec == Init /\ [][Next]_vars

(* One call of New on its own: the directory, the Options, the deferred
   files. *)
NextNew ==
    \/ NewTempDir
    \/ ApplyOption
    \/ Materialize

SpecNew == Init /\ [][NextNew]_vars

(* Test with the Option lists that matter to the teardown. *)
InitClose ==
    /\ opts \in TeardownOptLists
    /\ viaTest = TRUE
    /\ InitState

SpecClose == InitClose /\ [][Next]_vars

(* Close runs on the test goroutine, which goes on whenever it can: the wait
   returns once the process is not running, then the removal and the return
   follow.  A process that runs comes to its end: it exits on its own or the
   caller's context becomes done, and exec kills it. *)
SpecCloseFair ==
    /\ SpecClose
    /\ WF_vars(CloseWait)
    /\ WF_vars(CloseRemove)
    /\ WF_vars(CloseRet)
    /\ WF_vars(ProcExit \/ CtxCancel)

(* The reservation methods on their own: a holder of the Cmd calls
   C2SListen, S2SListen and ComponentListen, with any network, and net.Listen
   succeeds or fails.  idx numbers the calls, and so the listeners. *)
InitListen ==
    /\ opts = <<>>
    /\ viaTest = FALSE
    /\ pc = "Listen"
    /\ idx = 1
    /\ cmd = ZeroCmd
    /\ dir = "exists"
    /\ proc = "unstarted"
    /\ ctxDone = FALSE
    /\ killed = FALSE
    /\ live = {}
    /\ confirmed = {}
    /\ tries = 0
    /\ newErr = NoErr
    /\ closeReg = FALSE
    /\ cl = NewClose
    /\ fatal = FALSE
    /\ subI = -1
    /\ events = <<>>
    /\ inSub = FALSE
    /\ subFailed = FALSE
    /\ upd = IdleUpd
    /\ wr = IdleWr
    /\ mu = [b \in Bridges |-> "free"]
    /\ acc = {}

ListenCall ==
    /\ pc = "Listen"
    /\ idx <= MaxCalls
    /\ \E role \in Roles, network \in Networks, ok \in BOOLEAN :
        LET r == CASE role = "c2s" -> C2SListen(cmd, network, idx, ok)
                   [] role = "s2s" -> S2SListen(cmd, network, idx, ok)
                   [] role = "comp" -> ComponentListen(cmd, network, idx, ok)
        IN /\ cmd' = r.cmd
           /\ events' = Append(events,
                               Ev("call", idx,
                                  [role |-> role, net |-> network, ret |-> r.ret,
                                   err |-> r.err, opened |-> r.opened,
                                   before |-> Listener(cmd, role),
                                   after |-> Listener(r.cmd, role),
                                   netBefore |-> Network(cmd, role),
                                   netAfter |-> Network(r.cmd, role)]))
    /\ idx' = idx + 1
    /\ UNCHANGED <<logVars, opts, viaTest, pc, dir, proc, ctxDone, killed, live, confirmed,
                   tries, newErr, closeReg, cl, fatal, subI>>

NextListen == ListenCall

SpecListen == InitListen /\ [][NextListen]_vars

-----------------------------------------------------------------------------
(* The loggers next to the test goroutine.  A child test is taken step by
   step here: the process writes its output, and a session its traffic,
   while the test goroutine rebinds the loggers, runs the body and tears the
   command down. *)

(* The runner is called: i++ and t.Run starts the child test. *)
SubStart ==
    /\ viaTest
    /\ pc = "Running"
    /\ ~inSub
    /\ upd = IdleUpd
    /\ subI + 1 < MaxSubtests
    /\ subI' = NextI(subI)
    /\ upd' = [k |-> 1, cs |-> FALSE]
    /\ events' = Append(events, Ev("subtest", subI', Child(subI', subFailed)))
    /\ UNCHANGED <<opts, viaTest, pc, idx, cmd, dir, proc, ctxDone, killed, live, confirmed,
                   tries, newErr, closeReg, cl, fatal, inSub, subFailed, wr, mu, acc>>

(* The child test: Update of the next logger, up to w.Lock(); a nil logger
   is passed over. *)
UpdLock ==
    /\ upd.k \in 1..Len(BridgeOrder)
    /\ ~upd.cs
    /\ LET b == BridgeOrder[upd.k]
       IN IF ~cmd[b].present
          THEN /\ upd' = [k |-> upd.k + 1, cs |-> FALSE]
               /\ UNCHANGED mu
          ELSE /\ CanLock(mu[b])
               /\ mu' = [mu EXCEPT ![b] = "Update"]
               /\ upd' = [upd EXCEPT !.cs = TRUE]
    /\ UNCHANGED <<opts, viaTest, pc, idx, cmd, dir, proc, ctxDone, killed, live, confirmed,
                   tries, newErr, closeReg, cl, fatal, subI, events, inSub, subFailed, wr, acc>>

(* The child test: w.t = t; w.Unlock() *)
UpdSet ==
    /\ upd.cs
    /\ LET b == BridgeOrder[upd.k]
       IN /\ cmd' = [cmd EXCEPT ![b] = Update(cmd[b], SubT(subI))]
          /\ acc' = acc \cup {Access("Update", b, mu[b] = "Update")}
          /\ mu' = [mu EXCEPT ![b] = "free"]
          /\ upd' = [k |-> upd.k + 1, cs |-> FALSE]
    /\ UNCHANGED <<opts, viaTest, pc, idx, dir, proc, ctxDone, killed, live, confirmed,
                   tries, newErr, closeReg, cl, fatal, subI, events, inSub, subFailed, wr>>

(* The child test calls the body: f(ctx, t, cmd) *)
BodyStart ==
    /\ upd.k = Len(BridgeOrder) + 1
    /\ inSub' = TRUE
    /\ upd' = IdleUpd
    /\ events' = Append(events, Ev("body", subI, [t |-> SubT(subI), bound |-> Bound(cmd)]))
    /\ UNCHANGED <<opts, viaTest, pc, idx, cmd, dir, proc, ctxDone, killed, live, confirmed,
                   tries, newErr, closeReg, cl, fatal, subI, subFailed, wr, mu, acc>>

(* The body returns and t.Run reports whether the child test passed. *)
SubEnd ==
    /\ inSub
    /\ inSub' = FALSE
    /\ \E pass \in BOOLEAN : subFailed' = (subFailed \/ ~pass)
    /\ UNCHANGED <<opts, viaTest, pc, idx, cmd, dir, proc, ctxDone, killed, live, confirmed,
                   tries, newErr, closeReg, cl, fatal, subI, events, upd, wr, mu, acc>>

(* Who calls Write.  The logger of Log is Stdout and Stderr of the process,
   which writes while it runs; the loggers of LogXML (nil without LogXML) are
   TeeIn and TeeOut of the sessions that the bodies of the child tests (or
   the caller of prosody.New) dial, once the process listens on the socket of
   the role they dial. *)
MayWrite(b) ==
    IF b = "stdoutWriter"
    THEN cmd[b].present /\ proc = "running"
    ELSE /\ IF viaTest THEN subI >= 0 ELSE pc # "Start"
         /\ pc # "Done"
         /\ \E role \in {"c2s", "s2s"} :
              Listener(cmd, role) # 0 /\ role \in confirmed \cup live

Returned(b, n) ==
    LET r == Write(cmd[b], n)
    IN [pc |-> "returned", w |-> b, n |-> n, ret |-> r.n, err |-> r.err,
        logged |-> r.logged,
        active |-> r.logged /\ Active(cmd[b].t)]

(* Write is called with n bytes: a nil logger returns at once, another one
   goes for its mutex. *)
WriteCall ==
    /\ wr.pc \in {"idle", "returned"}
    /\ \E b \in Bridges, n \in 0..MaxLen :
        /\ MayWrite(b)
        /\ wr' = IF Write(cmd[b], n).locks
                 THEN [IdleWr EXCEPT !.pc = "waiting", !.w = b, !.n = n]
                 ELSE Returned(b, n)
    /\ UNCHANGED <<opts, viaTest, pc, idx, cmd, dir, proc, ctxDone, killed, live, confirmed,
                   tries, newErr, closeReg, cl, fatal, subI, events, inSub, subFailed, upd, mu, acc>>

(* Write: w.Lock() *)
WriteLock ==
    /\ wr.pc = "waiting"
    /\ CanLock(mu[wr.w])
    /\ mu' = [mu EXCEPT ![wr.w] = "Write"]
    /\ wr' = [wr EXCEPT !.pc = "cs"]
    /\ UNCHANGED <<opts, viaTest, pc, idx, cmd, dir, proc, ctxDone, killed, live, confirmed,
                   tries, newErr, closeReg, cl, fatal, subI, events, inSub, subFailed, upd, acc>>

(* Write: the read of w.t, Logf, and the return through the deferred
   w.Unlock() *)
WriteLog ==
    /\ wr.pc = "cs"
    /\ wr' = Returned(wr.w, wr.n)
    /\ acc' = acc \cup {Access("Write", wr.w, mu[wr.w] = "Write")}
    /\ mu' = [mu EXCEPT ![wr.w] = "free"]
    /\ UNCHANGED <<opts, viaTest, pc, idx, cmd, dir, proc, ctxDone, killed, live, confirmed,
                   tries, newErr, closeReg, cl, fatal, subI, events, inSub, subFailed, upd>>

InitLog ==
    /\ opts \in BridgeOptLists
    /\ viaTest \in BOOLEAN
    /\ InitState

NextLog ==
    \/ NewTempDir
    \/ ApplyOption
    \/ Materialize
    \/ TestSetup
    \/ Start
    \/ WaitC2S
    \/ WaitS2S
    \/ RunDeferF
    \/ SubStart
    \/ UpdLock
    \/ UpdSet
    \/ BodyStart
    \/ SubEnd
    \/ TestEnd
    \/ CloseStdin
    \/ CloseShutdown
    \/ CloseWait
    \/ CloseRemove
    \/ CloseRet
    \/ Cancel
    \/ ProcBind
    \/ ProcExit
    \/ CtxCancel
    \/ WriteCall
    \/ WriteLock
    \/ WriteLog

SpecLog == InitLog /\ [][NextLog]_vars

(* The goroutines are scheduled: a step that stays possible is taken.  A
   goroutine that waits in Lock gets the mutex in the end, however often the
   others take it: sync.Mutex hands a starving waiter the mutex. *)
SpecLogFair ==
    /\ SpecLog
    /\ WF_vars(UpdSet)
    /\ WF_vars(WriteLog)
    /\ SF_vars(UpdLock)
    /\ SF_vars(WriteLock)

-----------------------------------------------------------------------------
(* Reading the history *)

Idx(k) == {j \in 1..Len(events) : events[j].k = k}

IsReg(e) == e.k = "reg"
IsWrite(e) == e.k = "write"
IsOpt(e) == e.k = "opt"

(* The registrations of file writers, and the writers called, in order. *)
Registered == LET r == SelectSeq(events, IsReg) IN [j \in 1..Len(r) |-> r[j].x.w]
Invoked == LET r == SelectSeq(events, IsWrite) IN [j \in 1..Len(r) |-> r[j].x.w]
OptsRun == LET r == SelectSeq(events, IsOpt) IN [j \in 1..Len(r) |-> r[j].i]

IsPrefix(s, t) == Len(s) <= Len(t) /\ SubSeq(t, 1, Len(s)) = s

FileIdx == Idx("create") \cup Idx("write")

(* New returned a Cmd / failed in an Option / failed in cmd.cfgF. *)
Constructed == pc \notin {"New", "Opts"} /\ newErr = NoErr
OptFailed == newErr.ctx = "error applying option"
CfgFailed == newErr.ctx = "error running config func"

-----------------------------------------------------------------------------
(* C1: reservation is idempotent per role: after a successful reservation
   call for a role, every later call for that role, whatever network it asks
   for, returns the same listener, opens no listener and leaves the recorded
   network kind as it was; at most one listener is opened per role. *)
C1_IdempotentReservation ==
    /\ \A a \in Idx("reserve"), b \in Idx("reserve") :
         (a < b /\ events[a].x.role = events[b].x.role /\ events[a].x.ret # 0)
           => /\ events[b].x.ret = events[a].x.ret
              /\ ~events[b].x.opened
              /\ events[b].x.netAfter = events[a].x.netAfter
    /\ \A role \in Roles :
         Cardinality({a \in Idx("reserve") :
                        events[a].x.role = role /\ events[a].x.opened}) <= 1

(* Two calls for one role, the second asking for another network. *)
C1_Witness ==
    \E a \in Idx("reserve"), b \in Idx("reserve") :
        /\ a < b
        /\ events[a].x.role = events[b].x.role
        /\ events[a].x.ret # 0
        /\ events[a].x.net # events[b].x.net
        /\ events[b].x.ret = events[a].x.ret

(* C2: in every execution of Close the steps come in one order: the standard
   input is closed before the shutdown chain runs, the chain has finished
   (when one is registered) before the wait for exit begins, and the wait has
   returned before the directory is removed. *)
C2_TeardownOrder ==
    /\ \A j \in Idx("shutdown") :
         /\ \E a \in Idx("stdinClose") : a < j
         /\ \A b \in Idx("wait") \cup Idx("removeAll") : j < b
    /\ \A j \in Idx("wait") :
         /\ \E a \in Idx("stdinClose") : a < j
         /\ cmd.shutdown # <<>> => \E a \in Idx("shutdown") : a < j
         /\ \A b \in Idx("removeAll") : j < b
    /\ \A j \in Idx("removeAll") : \E a \in Idx("wait") : a < j

(* A Close that went through all four steps. *)
C2_Witness ==
    /\ cl.returned
    /\ Idx("stdinClose") # {}
    /\ Idx("shutdown") # {}
    /\ Idx("wait") # {}
    /\ Idx("removeAll") # {}

(* C3: when the shutdown chain failed, the wait for exit is still made and
   its result surfaced: a wait error is what Close returns, and when wait and
   removal succeed the directory is removed and Close returns the error of
   the shutdown chain. *)
C3_WaitAfterShutdownFailure ==
    (cl.ret # "unset" /\ cl.e = "shutdownErr")
      => /\ cl.waitErr # "unset"
         /\ Idx("wait") # {}
         /\ cl.waitErr # Nil => cl.ret = cl.waitErr
         /\ (cl.waitErr = Nil /\ cl.rmErr = Nil)
              => (dir = "removed" /\ cl.ret = "shutdownErr")

(* The chain failed, the process had exited cleanly, the directory went. *)
C3_Witness ==
    /\ cl.returned
    /\ cl.e = "shutdownErr"
    /\ cl.waitErr = Nil
    /\ cl.rmErr = Nil
    /\ cl.ret = "shutdownErr"

(* C4: removal needs a confirmed exit: when the wait for exit fails the
   directory is not removed and Close returns the wait error; whenever the
   directory has been removed, a wait has returned without error before. *)
C4_RemovalRequiresExit ==
    /\ cl.waitErr \notin {"unset", Nil}
         => /\ dir # "removed"
            /\ Idx("removeAll") = {}
            /\ cl.ret = cl.waitErr
    /\ dir = "removed"
         => \E a \in Idx("wait"), b \in Idx("removeAll") :
               a < b /\ events[a].x = Nil /\ events[b].x = Nil

(* Close returned the error of a failed wait and the directory is there. *)
C4_Witness ==
    /\ cl.returned
    /\ cl.waitErr = "exitErr"
    /\ cl.ret = "exitErr"
    /\ dir = "exists"

(* C5: the temporary directory exists from before the first Option until the
   wait for exit has returned (through the Options, the writing of the
   deferred files, start, the socket waits, the post-start chain, the
   subtests and the shutdown chain), and it is gone once a Close whose steps
   all succeeded has returned. *)
C5_DirectoryLifecycle ==
    /\ pc \in {"Opts", "Setup", "Start", "WaitC2S", "WaitS2S", "DeferF",
               "Running", "CloseStdin", "CloseShutdown", "CloseWait"}
         => dir = "exists"
    /\ (cl.returned /\ cl.stdinErr = Nil /\ cl.waitErr = Nil /\ cl.rmErr = Nil)
         => dir = "removed"

(* After subtests and a shutdown chain, Close removed the directory. *)
C5_Witness ==
    /\ cl.returned
    /\ dir = "removed"
    /\ subI >= 0
    /\ Idx("shutdown") # {}
    /\ Idx("write") # {}

(* C6 (as claimed): once a Command has been started, found live, and its
   context is then cancelled and the process killed, teardown finds the
   process exited and leaves no temporary directory. *)
C6_CancelledThenRemoved ==
    (cl.returned /\ ~fatal /\ ctxDone /\ proc = "killed" /\ cl.stdinErr = Nil
       /\ \E a \in Idx("start") : events[a].x)
      => (Idx("wait") # {} /\ dir = "removed")

(* C7: the deferred files are written once per construction, the writers
   called in registration order, each at most once; a failure at one file
   ends the run, no later writer is called, and New fails with that error. *)
C7_DeferredOrdering ==
    /\ Cardinality(Idx("cfgF")) <= 1
    /\ IsPrefix(Invoked, Registered)
    /\ (Constructed /\ Registered # <<>>)
         => (Cardinality(Idx("cfgF")) = 1 /\ Invoked = Registered)
    /\ \A j \in FileIdx :
         events[j].x.err # Nil
           => /\ \A b \in FileIdx : b <= j
              /\ newErr = CfgErr(events[j].x.err)
              /\ fatal
    /\ CfgFailed => \E j \in FileIdx : events[j].x.err = newErr.wraps

(* Four registrations, the second writer failed. *)
C7_Witness ==
    /\ CfgFailed
    /\ Len(Registered) = 4
    /\ Len(Invoked) = 2
    /\ pc = "Done"

(* C8: no deferred file is created or written while an Option of the list
   has not run: every Option has run, without error, before the first. *)
C8_MaterializeAfterOptions ==
    \A j \in FileIdx \cup Idx("cfgF") :
        /\ Cardinality({a \in Idx("opt") : a < j}) = Len(opts)
        /\ \A a \in Idx("opt") : a < j /\ events[a].x = Nil

(* A file registered by the first Option is written after the second ran. *)
C8_Witness ==
    /\ Len(opts) = 2
    /\ opts[1].k = "TempFile"
    /\ opts[2].k = "listen"
    /\ \E j \in Idx("write") : events[j].i = 1

(* C9: the Options run in the order of the list, and the first one that
   fails ends construction: no later Option runs, no deferred file is
   written, New returns the error with the Option context and no Cmd, and no
   process is started. *)
C9_OptionFailureAborts ==
    /\ OptsRun = [j \in 1..Len(OptsRun) |-> j]
    /\ Len(OptsRun) <= Len(opts)
    /\ \A j \in Idx("opt") :
         events[j].x # Nil
           => /\ \A b \in Idx("opt") : b <= j
              /\ FileIdx \cup Idx("cfgF") = {}
              /\ newErr = OptErr(events[j].x)
              /\ ~closeReg
              /\ Idx("start") = {}
              /\ proc = "unstarted"
              /\ fatal

(* The first of two Options failed and the test has ended. *)
C9_Witness ==
    /\ Len(opts) = 2
    /\ OptFailed
    /\ Len(OptsRun) = 1
    /\ pc = "Done"

(* C10 (as claimed): the post-start chain and the subtests begin only when
   every reserved socket, of any role, has been confirmed live. *)
C10_AllReservedConfirmed ==
    pc \in {"DeferF", "Running"}
      => \A role \in Roles : Listener(cmd, role) # 0 => role \in confirmed

-----------------------------------------------------------------------------
(* More of the history *)

IsDefer(e) == e.k = "defer"
IsShutdown(e) == e.k = "shutdown"

(* The functions of the post-start / shutdown chain that were called. *)
DeferRun == LET r == SelectSeq(events, IsDefer) IN [j \in 1..Len(r) |-> r[j].i]
ShutdownRun == LET r == SelectSeq(events, IsShutdown) IN [j \in 1..Len(r) |-> r[j].i]

(* The Options that have run without error, and those of one kind among
   them, by their place in the list. *)
AppliedOK == Cardinality({a \in Idx("opt") : events[a].x = Nil})

RECURSIVE OptsOfKind(_, _)
OptsOfKind(kind, n) ==
    IF n = 0 THEN <<>>
    ELSE LET rest == OptsOfKind(kind, n - 1)
         IN IF opts[n].k = kind THEN Append(rest, n) ELSE rest

(* C11 (as claimed): the post-start chain runs only after the process was
   launched and the liveness of every reserved socket confirmed, each of its
   functions at most once, and subtests start only after the whole chain has
   succeeded. *)
C11_PostStartAfterLiveness ==
    /\ \A j \in Idx("defer") :
         /\ \E a \in Idx("start") : a < j /\ events[a].x
         /\ \A role \in Roles : Listener(cmd, role) # 0 => role \in confirmed
         /\ \A b \in Idx("defer") : events[b].i = events[j].i => b = j
    /\ \A j \in Idx("subtest") :
         /\ DeferRun = cmd.deferF
         /\ \A b \in Idx("defer") : b < j /\ events[b].x

C12_InvFatal ==
    /\ fatal => (Idx("subtest") = {} /\ pc # "Running")
    /\ (newErr # NoErr \/ \E a \in Idx("start") \cup Idx("defer") : ~events[a].x)
         => fatal
    /\ Cardinality(Idx("start")) <= 1
    /\ Cardinality(Idx("cfgF")) <= 1
    /\ \A a \in Idx("opt"), b \in Idx("opt") : events[a].i = events[b].i => a = b
    /\ \A a \in Idx("defer"), b \in Idx("defer") :
         (~events[a].x \/ events[a].i = events[b].i) => b <= a

(* What the harness does after a failure: it never again applies an Option,
   writes a file, starts the process, calls a post-start function or runs a
   subtest. *)
StepKinds == {"opt", "create", "write", "cfgF", "start", "defer", "subtest", "body"}

C12_NoStepAfterFailure ==
    fatal => /\ fatal'
             /\ subI' = subI
             /\ pc' # "Running"
             /\ \A j \in Len(events) + 1..Len(events') : events'[j].k \notin StepKinds

(* C12: a failed construction or startup stops the enclosing test: once an
   Option, a deferred writer, the launch, a socket wait or a post-start
   function has failed, no subtest runs, then or later; and the failed step
   is not tried again. *)
C12_FailureStopsTest ==
    /\ []C12_InvFatal
    /\ [][C12_NoStepAfterFailure]_vars

(* The process was started, a post-start function failed, the test ended. *)
C12_Witness ==
    /\ pc = "Done"
    /\ fatal
    /\ \E a \in Idx("start") : events[a].x
    /\ \E a \in Idx("defer") : ~events[a].x
    /\ Idx("subtest") = {}

C13_InvChains ==
    /\ cmd.deferF = OptsOfKind("Defer", AppliedOK)
    /\ cmd.shutdown = OptsOfKind("Shutdown", AppliedOK)
    /\ cmd.cfgF = Registered
    /\ IsPrefix(DeferRun, cmd.deferF)
    /\ IsPrefix(ShutdownRun, cmd.shutdown)
    /\ \A a \in Idx("defer"), b \in Idx("defer") : ~events[a].x => b <= a
    /\ \A a \in Idx("shutdown"), b \in Idx("shutdown") : ~events[a].x => b <= a
    /\ pc = "Running" => DeferRun = cmd.deferF
    /\ cl.e = Nil => ShutdownRun = cmd.shutdown
    /\ cl.e \notin {"unset", Nil}
         => (cl.e = "shutdownErr" /\ \E a \in Idx("shutdown") : ~events[a].x)
    /\ (\E a \in Idx("shutdown") : ~events[a].x) => cl.e = "shutdownErr"

(* A step that changes one chain appends to it and leaves the others. *)
C13_OneChainPerStep ==
    /\ cmd.deferF' # cmd.deferF
         => /\ cmd.deferF' = Append(cmd.deferF, idx)
            /\ cmd.shutdown' = cmd.shutdown /\ cmd.cfgF' = cmd.cfgF
    /\ cmd.shutdown' # cmd.shutdown
         => /\ cmd.shutdown' = Append(cmd.shutdown, idx)
            /\ cmd.deferF' = cmd.deferF /\ cmd.cfgF' = cmd.cfgF
    /\ cmd.cfgF' # cmd.cfgF
         => /\ IsPrefix(cmd.cfgF, cmd.cfgF')
            /\ cmd.deferF' = cmd.deferF /\ cmd.shutdown' = cmd.shutdown

(* C13: Defer and Shutdown registrations each make their own chain: the
   chain holds the functions of the Options of that kind, in the order the
   Options were passed; a run calls them in that order and stops at the first
   error, which is the result of the chain; a registration appends to its
   own chain and leaves the other one and the file-writer chain as they
   were. *)
C13_ChainsCompose ==
    /\ []C13_InvChains
    /\ [][C13_OneChainPerStep]_vars

(* Two post-start functions, called in the order they were passed. *)
C13_Witness ==
    /\ cmd.deferF = <<1, 2>>
    /\ DeferRun = <<1, 2>>
    /\ pc = "Running"

IsSubtest(e) == e.k = "subtest"

(* The child tests that were created, in the order of the calls. *)
Children == SelectSeq(events, IsSubtest)

(* C14: the calls of the runner create the child tests <base>/0, <base>/1,
   ... in the order of the calls: the counter goes up by one with every
   call, whether or not earlier child tests failed, so that the names are
   determined by the place of the call and differ from each other. *)
C14_SubtestNames ==
    /\ Len(Children) = subI + 1
    /\ \A j \in 1..Len(Children) :
         /\ Children[j].i = j - 1
         /\ Children[j].x.name = cmdName \o "/" \o ToString(j - 1)
    /\ \A a \in 1..Len(Children), b \in 1..Len(Children) :
         Children[a].x.name = Children[b].x.name => a = b

(* The first child test failed, the second is running under the next name. *)
C14_Witness ==
    /\ Len(Children) = 2
    /\ Children[2].x.afterFailure
    /\ Children[2].x.name = "prosody/1"
    /\ inSub

(* C15: in every child test the logger of the process output and the two
   loggers of the XML traffic are bound to the child test when the body is
   called, and stay so while the body runs. *)
C15_ReboundBeforeBody ==
    /\ \A j \in Idx("body") :
         /\ events[j].x.t = SubT(events[j].i)
         /\ \A b \in Bridges :
              events[j].x.bound[b].present => events[j].x.bound[b].t = events[j].x.t
    /\ inSub => \A b \in Bridges : cmd[b].present => cmd[b].t = SubT(subI)

(* The body of the second child test runs, all three loggers configured. *)
C15_Witness ==
    /\ inSub
    /\ subI = 1
    /\ \A b \in Bridges : cmd[b].present /\ cmd[b].t = SubT(1)

(* C16 (as claimed): whenever the process writes output before the
   enclosing test is over, between child tests and during teardown too, the
   test that the logger of its output is bound to is still running. *)
C16_LoggerOfRunningTest ==
    (pc # "Done" /\ wr.pc = "returned" /\ wr.w = "stdoutWriter" /\ wr.logged)
      => wr.active

(* C17: Write returns the length of its input and no error, in every state;
   a nil logger and a logger without a test log nothing. *)
C17_WriteNeverFails ==
    wr.pc = "returned"
      => /\ wr.ret = wr.n
         /\ wr.err = Nil
         /\ (~cmd[wr.w].present \/ cmd[wr.w].t = <<>>) => ~wr.logged

(* Write has returned from a logger that exists and has no test. *)
C17_Witness ==
    /\ wr.pc = "returned"
    /\ wr.n > 0
    /\ wr.ret = wr.n
    /\ cmd[wr.w].present
    /\ cmd[wr.w].t = <<>>
    /\ ~wr.logged

(* C18 (as claimed): the field t of a logger is read or written only with
   the mutex of the logger held. *)
C18_EveryAccessLocked == \A a \in acc : a.locked

(* The test a logger is bound to before and after the rebinding of the
   latest child test. *)
OldT == IF subI >= 1 THEN SubT(subI - 1) ELSE <<"T">>
NewT == IF subI >= 0 THEN SubT(subI) ELSE <<"T">>

InUpdate(b) == upd.cs /\ BridgeOrder[upd.k] = b
InWrite(b) == wr.pc = "cs" /\ wr.w = b

C18_InvLock ==
    /\ \A a \in acc : a.locked \/ a.by = "Start"
    /\ pc \in {"New", "Opts", "Setup", "Start"}
         => (proc = "unstarted" /\ wr.pc = "idle" /\ upd = IdleUpd)
    /\ \A b \in Bridges :
         /\ ~(InUpdate(b) /\ InWrite(b))
         /\ mu[b] = "Update" <=> InUpdate(b)
         /\ mu[b] = "Write" <=> InWrite(b)
    /\ upd.cs => ENABLED UpdSet
    /\ wr.pc = "cs" => ENABLED WriteLog

(* C18 (amended): the field t of a logger is read or written with the mutex
   held, but for the read of Cmd.Start, made when no process and no Write
   exist yet; Write and a rebinding are never both between Lock and Unlock
   of one logger; a Write logs to the test the logger was bound to before the
   rebinding or to the one it is bound to after it; and whoever waits for
   the mutex gets it. *)
C18_LockDiscipline ==
    /\ []C18_InvLock
    /\ [][(wr.pc = "cs" /\ wr'.pc = "returned" /\ wr'.logged)
            => cmd[wr.w].t \in {OldT, NewT}]_vars
    /\ (wr.pc = "waiting") ~> (wr.pc = "returned")
    /\ (upd.k \in 1..Len(BridgeOrder)) ~> (upd.k = Len(BridgeOrder) + 1)

(* Write waits for the mutex that the rebinding of a child test holds. *)
C18_Witness ==
    /\ wr.pc = "waiting"
    /\ InUpdate(wr.w)
    /\ \E a \in acc : a.by = "Start"

(* C19 (as claimed): whenever a step of Close fails, Close returns an error,
   and a failure to close the standard input stops neither the shutdown chain
   nor the wait for exit. *)
C19_ShutdownFailuresReported ==
    cl.returned
      => /\ (cl.stdinErr = "stdinErr" \/ cl.e = "shutdownErr"
               \/ cl.waitErr \notin {"unset", Nil} \/ cl.rmErr = "removeErr")
              => cl.ret # Nil
         /\ cl.stdinErr = "stdinErr"
              => (cl.e # "unset" /\ Idx("wait") # {})

(* C20: when New has returned a Cmd, Close runs exactly once, when the test
   ends and after every subtest, also when the launch, a socket wait or the
   post-start chain failed; an error of Close is logged, and no step of the
   teardown changes whether the test, or a subtest, has failed. *)
C20_InvClose ==
    /\ Cardinality(Idx("stdinClose")) <= 1
    /\ Cardinality(Idx("kill")) <= 1
    /\ ~closeReg => Idx("stdinClose") = {}
    /\ (Constructed /\ pc \notin {"Setup", "Done"}) => closeReg
    /\ (closeReg /\ pc = "Done")
         => (cl.returned /\ Cardinality(Idx("stdinClose")) = 1
               /\ Cardinality(Idx("kill")) = 1)
    /\ \A a \in Idx("stdinClose"), b \in Idx("subtest") \cup Idx("start") \cup Idx("defer") :
         b < a
    /\ cl.returned => (cl.ret # Nil <=> Idx("logf") # {})
    /\ \A a \in Idx("logf") : events[a].x = cl.ret

InTeardown == pc \in {"CloseStdin", "CloseShutdown", "CloseWait", "CloseRemove",
                      "CloseRet", "Cancel"}

C20_TeardownRegistered ==
    /\ []C20_InvClose
    /\ [][InTeardown => (fatal' = fatal /\ subI' = subI
                           /\ \A j \in 1..Len(events) : events'[j] = events[j])]_vars

(* The launch failed, Close ran all the same, failed and was logged. *)
C20_Witness ==
    /\ pc = "Done"
    /\ \E a \in Idx("start") : ~events[a].x
    /\ cl.returned
    /\ Idx("logf") # {}

-----------------------------------------------------------------------------
(* C21 (as claimed): two Options of one Cmd may reserve the same role: when
   an Option reserved a role and a later Option reserves it again, the later
   Option succeeds as well, New does not fail because of it, and both see the
   same listener (and so the same port). *)
C21_ReservedTwice ==
    \A a \in Idx("reserve"), b \in Idx("reserve") :
        (a < b /\ events[a].x.role = events[b].x.role /\ events[a].x.err = Nil)
          => /\ events[b].x.err = Nil
             /\ events[b].x.ret = events[a].x.ret
             /\ ~OptFailed

-----------------------------------------------------------------------------
(* The ClientCert Options of the list, by number. *)
ClientOpts == {i \in 1..Len(opts) : opts[i].k = "ClientCert"}

(* C22: the retained certificate and the retained key always belong to one
   credential, and when New has returned a Cmd whose Options issued client
   credentials, the retained certificate and key are those of the last
   ClientCert Option. *)
C22_LastClientCert ==
    /\ cmd.clientCrt = cmd.clientCrtKey
    /\ (Constructed /\ ClientOpts # {})
         => /\ cmd.clientCrt \in ClientOpts
            /\ \A i \in ClientOpts : i <= cmd.clientCrt

(* Two client credentials were issued; New returned with the second. *)
C22_Witness ==
    /\ Constructed
    /\ Cardinality(ClientOpts) >= 2
    /\ cmd.clientCrt = MaxOpts
    /\ cmd.clientCrtKey = MaxOpts

-----------------------------------------------------------------------------
(* The certificate writers of client credentials that got as far as the
   certificate: the calls that retain an identity. *)
Retaining ==
    {j \in Idx("write") : events[j].x.w[2] = "clientcrt" /\ events[j].x.err # "fErr"}

C28_InvIdentity ==
    IF Retaining = {}
    THEN cmd.clientCrt = 0 /\ cmd.clientCrtKey = 0
    ELSE LET j == CHOOSE a \in Retaining : \A b \in Retaining : b <= a
         IN /\ cmd.clientCrt = events[j].x.w[1]
            /\ cmd.clientCrtKey = events[j].x.w[1]

(* C28: the retained client certificate and key are those of the last client
   certificate writer that ran, and none when none ran: a Cert Option, before
   or after a ClientCert Option, and the writers it registers leave them as
   they are, and so does the call of any Option, which only registers. *)
C28_OnlyClientCertRetained ==
    /\ []C28_InvIdentity
    /\ [][(pc = "Opts" /\ idx <= Len(opts))
            => (cmd'.clientCrt = cmd.clientCrt /\ cmd'.clientCrtKey = cmd.clientCrtKey)]_vars

(* A Cert Option after a ClientCert Option: its certificate was written last
   and the client identity is still that of the ClientCert Option. *)
C28_Witness ==
    /\ Constructed
    /\ \E a \in Retaining, b \in Idx("write") :
         /\ a < b
         /\ events[b].x.w[2] = "crt"
         /\ events[b].x.err = Nil
         /\ cmd.clientCrt = events[a].x.w[1]
         /\ cmd.clientCrt # events[b].x.w[1]

-----------------------------------------------------------------------------
(* The reservation calls that failed, and the first call for the same role
   after call a. *)
FailedCalls == {a \in Idx("call") : events[a].x.err # Nil}

NextCall(a, b) ==
    /\ b \in Idx("call")
    /\ a < b
    /\ events[b].x.role = events[a].x.role
    /\ \A m \in Idx("call") : (a < m /\ m < b) => events[m].x.role # events[a].x.role

(* A call that finds no listener for its role reserves with its own
   arguments: it listens, and the listener and the network recorded are its
   own when that succeeds. *)
Fresh(b) ==
    /\ events[b].x.before = 0
    /\ events[b].x.opened <=> events[b].x.err = Nil
    /\ events[b].x.err = Nil
         => (events[b].x.ret = events[b].i /\ events[b].x.after = events[b].i)
    /\ events[b].x.netAfter = events[b].x.net

(* C27 (as claimed): a reservation call that fails leaves the listener and
   the recorded network kind of its role as they were, and the next call for
   that role reserves afresh with its own arguments. *)
C27_FailedCallChangesNothing ==
    \A a \in FailedCalls :
        /\ events[a].x.after = events[a].x.before
        /\ events[a].x.netAfter = events[a].x.netBefore
        /\ \A b \in Idx("call") : NextCall(a, b) => Fresh(b)

(* C27 (amended): a reservation call fails only when its role has no
   listener; it leaves the listener slot empty and records the network kind
   it asked for, and the next call for that role reserves afresh with its own
   arguments. *)
C27_FailedCallRecordsNetwork ==
    \A a \in FailedCalls :
        /\ events[a].x.before = 0
        /\ events[a].x.after = 0
        /\ events[a].x.ret = 0
        /\ events[a].x.netAfter = events[a].x.net
        /\ \A b \in Idx("call") : NextCall(a, b) => Fresh(b)

(* A call for a role failed for one network, the next one succeeded for the
   other network. *)
C27_Witness ==
    \E a \in FailedCalls, b \in Idx("call") :
        /\ NextCall(a, b)
        /\ events[b].x.err = Nil
        /\ events[b].x.net # events[a].x.net
        /\ Network(cmd, events[a].x.role) = events[b].x.net
        /\ Listener(cmd, events[a].x.role) = events[b].i

-----------------------------------------------------------------------------
(* C23: when Close has returned, by whichever path (the standard input could
   not be closed, the wait failed, the removal failed, or all went well), the
   cancellation handle has been fired and the process is not running. *)
C23_CloseKills ==
    /\ cl.returned => (killed /\ proc # "running" /\ Cardinality(Idx("kill")) = 1)
    /\ (closeReg /\ pc = "Done") => cl.returned

(* Close returned early because the standard input could not be closed; the
   process was still running and the deferred kill ended it. *)
C23_Witness ==
    /\ cl.returned
    /\ cl.stdinErr = "stdinErr"
    /\ cl.waitErr = "unset"
    /\ ~ctxDone
    /\ proc = "killed"

-----------------------------------------------------------------------------
(* C25 (as claimed): in the teardown that Test registers for a process that
   was started, the cancellation of the harness (the kill deferred in Close,
   the cancel cleanup of Test) fires only after the shutdown chain has run
   and the wait for the exit has returned. *)
C25_GracefulStopBeforeKill ==
    (closeReg /\ killed /\ \E s \in Idx("start") : events[s].x)
      => /\ cl.e # "unset"
         /\ cl.waitErr # "unset"
         /\ \A a \in Idx("kill"), b \in Idx("wait") : b < a

-----------------------------------------------------------------------------
(* The process was never started: New failed, or the launch failed. *)
NeverStarted == \A s \in Idx("start") : ~events[s].x

(* C26 (as claimed): when the process was never started, no temporary
   directory of the Cmd is left once the cleanups of the test are over. *)
C26_NoDirectoryLeft ==
    (pc = "Done" /\ NeverStarted) => dir # "exists"

(* C26 (amended): when the process was never started, the temporary
   directory that New created is still there once the cleanups of the test
   are over: after a failure in New no Close is registered, and after a
   failed launch Close does not get as far as the removal. *)
C26_DirectoryLeft ==
    /\ (pc = "Done" /\ NeverStarted /\ newErr.text \notin {"pipeErr", "dirErr"})
         => dir = "exists"
    /\ (pc = "Done" /\ NeverStarted) => Idx("removeAll") = {}
    /\ (pc = "Done" /\ newErr # NoErr) => ~closeReg

(* The launch failed; Close ran, its wait failed and the directory stayed. *)
C26_Witness ==
    /\ pc = "Done"
    /\ \E s \in Idx("start") : ~events[s].x
    /\ \E a \in Idx("wait") : events[a].x = "notStartedErr"
    /\ cl.returned
    /\ dir = "exists"

-----------------------------------------------------------------------------
(* C24: when Close has reached the wait for the exit of the process, Close
   returns in the end, given that a running process exits on its own or the
   caller's context becomes done and the process is killed. *)
C24_WaitTerminates == (pc = "CloseWait") ~> cl.returned

(* Close waited for a process that ended because the context became done, and
   returned the error of the wait. *)
C24_Witness ==
    /\ cl.returned
    /\ ctxDone
    /\ proc = "killed"
    /\ cl.waitErr = "killedErr"
    /\ cl.ret = "killedErr"

====
